---- MODULE Spec2Model ----
(***************************************************************************)
(* cargo-remote: model of src/main.rs.                                     *)
(*                                                                         *)
(* One run of `main`: the command line and the two configuration files are *)
(* the inputs (chosen in Init), the build server is resolved from them,    *)
(* then the four external processes (rsync, ssh, rsync, rsync) are spawned *)
(* one after the other, each with a blocking `.output()` call, and the     *)
(* process exits.  A call of `.output()` is two steps of the model: the    *)
(* spawn (which may fail with an io::Error) and the child's exit (which    *)
(* delivers an ExitStatus).                                                *)
(***************************************************************************)
EXTENDS Integers, Sequences, FiniteSets, TLC

\* ------------------------------------------------------------------ bounds

\* Exit codes a child process may deliver are 0..MaxExitCode.
MaxExitCode == 2

\* --build-env and the pass-through command hold 1..MaxArgs words each.
MaxArgs == 2

\* ------------------------------------------------------------ exit codes

ExitNoRemote == -3
ExitTransferFailed == -4
ExitRemoteNotStarted == -5
ExitCopyBackFailed == -6
ExitCopyLockFailed == -7
\* `exit(output.status.code().unwrap_or(1))`
ExitUnknownCode == 1
\* main returns normally
ExitSuccess == 0
\* a Rust panic ends the process with status 101
ExitPanic == 101

\* ------------------------------------------------------------- data types

\* Option<T>
None == [some |-> FALSE]
Some(x) == [some |-> TRUE, val |-> x]

\* Host names that appear on the command line or in a configuration file.
Servers == {"A", "B", ""}

\* A toml::Value stored under a key: a string, or something that is no string.
StringValue(s) == [type |-> "String", str |-> s]
IntegerValue == [type |-> "Integer", str |-> "-"]
Values == {StringValue(s) : s \in Servers} \cup {IntegerValue}

\* A parsed TOML document: a table that defines `remote` or does not.
Tables == UNION {[d -> Values] : d \in SUBSET {"remote"}}

\* What is on disk at a configuration path.
\*   NotFound : no such file           (read_to_string fails, ErrorKind::NotFound)
\*   IoError  : present, unreadable    (read_to_string fails otherwise)
\*   Invalid  : readable, no TOML      (parse::<Value>() fails)
\*   Toml     : readable, parses to `table`
Files == {[kind |-> k, table |-> <<>>] : k \in {"NotFound", "IoError", "Invalid"}}
            \cup {[kind |-> "Toml", table |-> t] : t \in Tables}

\* std::process::ExitStatus of a child: exited with a code, or killed by a signal.
Exited(c) == [exited |-> TRUE, code |-> c]
Signaled == [exited |-> FALSE, code |-> 0]
\* A child exits with a code in 0..255: the small ones, and the two at the top
\* that matter here (253 is what exit(-3) becomes, 255 is ssh's own error code).
ExitCodes == (0..MaxExitCode) \cup {253, 255}
ExitStatuses == {Exited(c) : c \in ExitCodes} \cup {Signaled}

\* ExitStatus::success()
success(status) == status.exited /\ status.code = 0
\* ExitStatus::code()
code(status) == IF status.exited THEN Some(status.code) ELSE None

Stages == <<"Transfer", "RemoteExecute", "CopyArtifacts", "CopyLock">>

\* ------------------------------------------------------------------ state

VARIABLES
    remote,         \* --remote: Option<String>
    copy_back,      \* --copy-back: Option<Option<String>>
    no_copy_lock,   \* --no-copy-lock
    hidden,         \* --transfer-hidden
    build_env,      \* --build-env: Vec<String>
    rustup_default, \* --rustup-default
    env,            \* --env
    remote_commands,\* the pass-through subcommand and its arguments: Vec<String>
    project_dir,    \* project_metadata.workspace_root
    project_file,   \* <project_dir>/.cargo-remote.toml on disk
    user_file,      \* the user-level cargo-remote.toml on disk
    pc,             \* position of main
    build_server,   \* the resolved build server (Option until resolved)
    build_path,     \* the remote build directory (Option until derived)
    calls,          \* the external processes main has tried to spawn, in order
    running,        \* the children that were spawned and have not exited
    not_started,    \* the stages whose process could not be spawned (io::Error)
    nonzero,        \* the rsync stages whose process exited without success
    output,         \* ExitStatus of the ssh process (Option)
    exit_code       \* the code the process ended with (Option)

vars == <<remote, copy_back, no_copy_lock, hidden, build_env, rustup_default, env,
          remote_commands, project_dir, project_file, user_file,
          pc, build_server, build_path, calls, running, not_started, nonzero,
          output, exit_code>>

inputs == <<remote, copy_back, no_copy_lock, hidden, build_env, rustup_default, env,
            remote_commands, project_dir, project_file, user_file>>

\* --------------------------------------------------------- configuration

\* fn config_from_file(config_path) -> Option<Value>
config_from_file(file) ==
    IF file.kind = "Toml" THEN Some(file.table) ELSE None

\* base.find_config_file("cargo-remote.toml"): Some(path) iff the file exists
find_config_file(file) ==
    IF file.kind = "NotFound" THEN None ELSE Some(file)

\* let configs = vec![ project-level, user-level ];
configs ==
    << config_from_file(project_file),
       IF find_config_file(user_file).some
       THEN config_from_file(find_config_file(user_file).val)
       ELSE None >>

\* Value::as_str()
as_str(v) == IF v.type = "String" THEN Some(v.str) ELSE None

\* Outcome of the lookup: a server, nothing, or a panic of the process.
Found(s) == [kind |-> "Found", server |-> s]
NotDefined == [kind |-> "NotDefined", server |-> "-"]
Panicked == [kind |-> "Panicked", server |-> "-"]

\* configs.into_iter()
\*     .flat_map(|config| config.and_then(|c| c["remote"].as_str().map(String::from)))
\*     .next()
\* The iterator is lazy: a source is looked at only when every source before it
\* yielded nothing.  `c["remote"]` is toml's Index for Value, which panics
\* ("index not found") when the table has no such key.
RECURSIVE first_remote(_)
first_remote(cfgs) ==
    IF cfgs = <<>> THEN NotDefined
    ELSE LET config == Head(cfgs) IN
         IF ~config.some THEN first_remote(Tail(cfgs))
         ELSE IF "remote" \notin DOMAIN config.val THEN Panicked
         ELSE LET s == as_str(config.val["remote"]) IN
              IF s.some THEN Found(s.val) ELSE first_remote(Tail(cfgs))

\* A resolution in which the configuration files come before the flag.
resolve_files_first(r, cfgs) ==
    IF first_remote(cfgs).kind = "NotDefined" /\ r.some THEN Found(r.val)
    ELSE first_remote(cfgs)

\* remote.or_else(|| ...first_remote...)
resolve(r, cfgs) ==
    IF r.some THEN Found(r.val) ELSE first_remote(cfgs)

\* -------------------------------------------------------------- build path

\* Project directories (workspace roots).
Paths == {"/home/u/app", "/home/u/lib"}

\* A u64 as four 16-bit limbs, the most significant first.
Limb == 65536
U64(a, b, c, d) == <<a, b, c, d>>

\* let mut hasher = DefaultHasher::new(); project_dir.hash(&mut hasher); hasher.finish()
\* DefaultHasher::new() is SipHash with fixed keys: the same path hashes to the
\* same u64 in every run.  The table stands for it on the two directories, with
\* one value of 20 and one of 19 decimal digits.
hash(path) ==
    CASE path = "/home/u/app" -> U64(51966, 47806, 4660, 22136)
      [] path = "/home/u/lib" -> U64(4660, 22136, 39612, 57072)

\* Division of a limb sequence by ten, with carry `r` from the limbs before:
\* the quotient's limbs, followed by the remainder.
RECURSIVE div10(_, _)
div10(limbs, r) ==
    IF limbs = <<>> THEN <<r>>
    ELSE LET n == r * Limb + Head(limbs) IN
         <<n \div 10>> \o div10(Tail(limbs), n % 10)

DecimalDigit == <<"0", "1", "2", "3", "4", "5", "6", "7", "8", "9">>

\* Display for u64 (`{}`): decimal, no padding, no leading zero.
\* (each division is done once: `qr` ranges over the one result of div10)
RECURSIVE to_string(_)
to_string(n) ==
    CHOOSE s \in { LET q == SubSeq(qr, 1, Len(qr) - 1)
                       digit == DecimalDigit[qr[Len(qr)] + 1]
                   IN IF \A i \in DOMAIN q : q[i] = 0 THEN digit
                      ELSE to_string(q) \o digit
                   : qr \in {div10(n, 0)} } : TRUE

\* Display that pads the hash with zeros to the 20 digits of u64::MAX.
RECURSIVE pad20(_)
pad20(s) == IF Len(s) >= 20 THEN s ELSE pad20("0" \o s)
build_path_padded(dir) == "~/remote-builds/" \o pad20(to_string(hash(dir))) \o "/"

\* format!("~/remote-builds/{}/", hasher.finish())
build_path_of(dir) == "~/remote-builds/" \o to_string(hash(dir)) \o "/"

\* ---------------------------------------------------------------- actions

Init ==
    /\ remote \in {None} \cup {Some(s) : s \in Servers}
    /\ copy_back \in {None, Some(None), Some(Some("debug"))}
    /\ no_copy_lock \in BOOLEAN
    /\ hidden \in BOOLEAN
    /\ build_env = <<"RUST_BACKTRACE=1">>
    /\ rustup_default = "stable"
    /\ env = "/etc/profile"
    /\ remote_commands = <<"build", "--release">>
    /\ project_dir \in Paths
    /\ project_file \in Files
    /\ user_file \in Files
    /\ pc = "resolve"
    /\ build_server = None
    /\ build_path = None
    /\ calls = <<>>
    /\ running = {}
    /\ not_started = {}
    /\ nonzero = {}
    /\ output = None
    /\ exit_code = None

\* std::process::exit(c), a panic, or the return of main
Exit(c) ==
    /\ pc' = "exited"
    /\ exit_code' = Some(c)

\* What the parent of this process reads as its exit status: the low 8 bits of
\* the i32 handed to exit().
wait_status(c) == c % 256

\* The build path takes the build server into its name.
derived_build_path_per_server ==
    "~/remote-builds/" \o to_string(hash(project_dir))
        \o (IF remote.some THEN remote.val ELSE "") \o "/"

\* lines 159-162: the build path of this run
derived_build_path == build_path_of(project_dir)

\* Itertools::join / [String]::join: the words with `sep` between them
RECURSIVE join(_, _)
join(words, sep) ==
    IF words = <<>> THEN ""
    ELSE IF Len(words) = 1 THEN words[1]
    ELSE words[1] \o sep \o join(Tail(words), sep)

\* A template that changes directory before the profile is sourced.
format_build_command_cd_first(e, d, p, b, c) ==
    "cd " \o p \o "; source " \o e \o "; rustup default " \o d \o "; "
        \o join(b, " ") \o " cargo " \o join(c, " ")

\* format!("source {}; rustup default {}; cd {}; {} cargo {}", env, rustup_default,
\*         build_path, build_env.into_iter().join(" "), remote_commands...join(" "))
format_build_command(e, d, p, b, c) ==
    "source " \o e \o "; rustup default " \o d \o "; cd " \o p \o "; "
        \o join(b, " ") \o " cargo " \o join(c, " ")

build_command ==
    format_build_command(env, rustup_default, build_path.val, build_env, remote_commands)

\* Dot-files are excluded when --transfer-hidden is given.
exclude_hidden_inverted == hidden

\* `if !hidden { rsync_to.arg("--exclude").arg(".*"); }`
exclude_hidden == ~hidden

\* the arguments of `rsync_to`
transfer_args ==
    <<"-a", "--delete", "--compress", "--info=progress2", "--exclude", "target">>
        \o (IF exclude_hidden THEN <<"--exclude", ".*">> ELSE <<>>)
        \o << "--rsync-path", "mkdir -p remote-builds && rsync",
              project_dir \o "/",
              build_server.val \o ":" \o build_path.val >>

\* the arguments of `ssh`
execute_args == <<"-t", build_server.val, build_command>>

\* let file_name = file_name.unwrap_or_default();
file_name == IF copy_back.val.some THEN copy_back.val.val ELSE ""

\* the arguments of the rsync that copies the artifacts back
copy_artifacts_args ==
    << "-a", "--delete", "--compress", "--info=progress2",
       build_server.val \o ":" \o build_path.val \o "/target/" \o file_name,
       project_dir \o "/target/" \o file_name >>

\* the arguments of the rsync that copies Cargo.lock back
copy_lock_args ==
    << "-a", "--delete", "--compress", "--info=progress2",
       build_server.val \o ":" \o build_path.val \o "/Cargo.lock",
       project_dir \o "/Cargo.lock" >>

\* Command::new(program).arg(..)...
args_of(stage) ==
    CASE stage = "Transfer" -> transfer_args
      [] stage = "RemoteExecute" -> execute_args
      [] stage = "CopyArtifacts" -> copy_artifacts_args
      [] stage = "CopyLock" -> copy_lock_args

\* The lockfile is fetched from the server named on the command line, if any.
Call_lock_from_flag(stage) ==
    [stage |-> stage, server |-> build_server.val,
     args |-> IF stage = "CopyLock" /\ ~remote.some
              THEN << "-a", "--delete", "--compress", "--info=progress2",
                      ":" \o build_path.val \o "/Cargo.lock",
                      project_dir \o "/Cargo.lock" >>
              ELSE args_of(stage)]

\* One invocation of a transport, as it is recorded.
Call(stage) == [stage |-> stage, server |-> build_server.val, args |-> args_of(stage)]

\* let build_server = remote.or_else(...).unwrap_or_else(|| { error!(..); exit(-3) });
Resolve ==
    /\ pc = "resolve"
    /\ LET r == resolve(remote, configs) IN
       CASE r.kind = "Found" ->
                /\ build_server' = Some(r.server)
                /\ build_path' = Some(derived_build_path)
                /\ pc' = "transfer"
                /\ UNCHANGED exit_code
         [] r.kind = "NotDefined" ->
                /\ Exit(ExitNoRemote)
                /\ UNCHANGED <<build_server, build_path>>
         [] r.kind = "Panicked" ->
                /\ Exit(ExitPanic)
                /\ UNCHANGED <<build_server, build_path>>
    /\ UNCHANGED <<inputs, calls, running, not_started, nonzero, output>>

\* --- Transfer: rsync -a --delete ... <project_dir>/ <build_server>:<build_path>

\* rsync is spawned and main goes on without waiting for it.
Transfer_spawn_only ==
    /\ pc = "transfer"
    /\ calls' = Append(calls, Call("Transfer"))
    /\ running' = running \cup {"Transfer"}
    /\ pc' = "execute"
    /\ UNCHANGED <<inputs, build_server, build_path, not_started, nonzero, output, exit_code>>

\* .output() spawns rsync; .unwrap_or_else(|e| { error!(..); exit(-4) }) on io::Error
Transfer ==
    /\ pc = "transfer"
    /\ calls' = Append(calls, Call("Transfer"))
    /\ \E started \in BOOLEAN :
         IF started
         THEN /\ running' = running \cup {"Transfer"}
              /\ pc' = "transfer_wait"
              /\ UNCHANGED <<not_started, exit_code>>
         ELSE /\ not_started' = not_started \cup {"Transfer"}
              /\ Exit(ExitTransferFailed)
              /\ UNCHANGED running
    /\ UNCHANGED <<inputs, build_server, build_path, nonzero, output>>

\* A transfer that failed is tried again.
TransferExit_retry ==
    /\ pc = "transfer_wait"
    /\ \E status \in ExitStatuses :
         /\ nonzero' = IF success(status) THEN nonzero ELSE nonzero \cup {"Transfer"}
         /\ pc' = IF success(status) THEN "execute" ELSE "transfer"
    /\ running' = running \ {"Transfer"}
    /\ UNCHANGED <<inputs, build_server, build_path, calls, not_started, output, exit_code>>

\* .output() returns Ok(Output) when rsync has exited; the Output is dropped
TransferExit ==
    /\ pc = "transfer_wait"
    /\ \E status \in ExitStatuses :
         nonzero' = IF success(status) THEN nonzero ELSE nonzero \cup {"Transfer"}
    /\ running' = running \ {"Transfer"}
    /\ pc' = "execute"
    /\ UNCHANGED <<inputs, build_server, build_path, calls, not_started, output, exit_code>>

\* --- RemoteExecute: ssh -t <build_server> <build_command>

\* An ssh that cannot be spawned is taken for a failed build and main goes on.
RemoteExecute_spawn_error_ignored ==
    /\ pc = "execute"
    /\ calls' = Append(calls, Call("RemoteExecute"))
    /\ \E started \in BOOLEAN :
         IF started
         THEN /\ running' = running \cup {"RemoteExecute"}
              /\ pc' = "execute_wait"
              /\ UNCHANGED <<not_started, output>>
         ELSE /\ not_started' = not_started \cup {"RemoteExecute"}
              /\ output' = Some(Signaled)
              /\ pc' = "copy_artifacts"
              /\ UNCHANGED running
    /\ UNCHANGED <<inputs, build_server, build_path, nonzero, exit_code>>

\* .output() spawns ssh; .unwrap_or_else(|e| { error!(..); exit(-5) }) on io::Error
RemoteExecute ==
    /\ pc = "execute"
    /\ calls' = Append(calls, Call("RemoteExecute"))
    /\ \E started \in BOOLEAN :
         IF started
         THEN /\ running' = running \cup {"RemoteExecute"}
              /\ pc' = "execute_wait"
              /\ UNCHANGED <<not_started, exit_code>>
         ELSE /\ not_started' = not_started \cup {"RemoteExecute"}
              /\ Exit(ExitRemoteNotStarted)
              /\ UNCHANGED running
    /\ UNCHANGED <<inputs, build_server, build_path, nonzero, output>>

\* A failed build ends the run at once, with the build's status.
RemoteExecuteExit_abort ==
    /\ pc = "execute_wait"
    /\ \E status \in ExitStatuses :
         /\ output' = Some(status)
         /\ IF success(status)
            THEN pc' = "copy_artifacts" /\ UNCHANGED exit_code
            ELSE Exit(IF status.exited THEN status.code ELSE ExitUnknownCode)
    /\ running' = running \ {"RemoteExecute"}
    /\ UNCHANGED <<inputs, build_server, build_path, calls, not_started, nonzero>>

\* let output = ....output()...;  the status of ssh is the status of the build
RemoteExecuteExit ==
    /\ pc = "execute_wait"
    /\ \E status \in ExitStatuses : output' = Some(status)
    /\ running' = running \ {"RemoteExecute"}
    /\ pc' = "copy_artifacts"
    /\ UNCHANGED <<inputs, build_server, build_path, calls, not_started, nonzero, exit_code>>

\* --- CopyArtifacts: rsync -a --delete ... <server>:<path>/target/<file> <dir>/target/<file>

\* `if let Some(file_name) = copy_back`
copy_back_wanted == copy_back.some

CopyArtifacts ==
    /\ pc = "copy_artifacts"
    /\ IF copy_back_wanted
       THEN /\ calls' = Append(calls, Call("CopyArtifacts"))
            /\ \E started \in BOOLEAN :
                 IF started
                 THEN /\ running' = running \cup {"CopyArtifacts"}
                      /\ pc' = "copy_artifacts_wait"
                      /\ UNCHANGED <<not_started, exit_code>>
                 ELSE /\ not_started' = not_started \cup {"CopyArtifacts"}
                      /\ Exit(ExitCopyBackFailed)
                      /\ UNCHANGED running
       ELSE /\ pc' = "copy_lock"
            /\ UNCHANGED <<calls, running, not_started, exit_code>>
    /\ UNCHANGED <<inputs, build_server, build_path, nonzero, output>>

CopyArtifactsExit ==
    /\ pc = "copy_artifacts_wait"
    /\ \E status \in ExitStatuses :
         nonzero' = IF success(status) THEN nonzero ELSE nonzero \cup {"CopyArtifacts"}
    /\ running' = running \ {"CopyArtifacts"}
    /\ pc' = "copy_lock"
    /\ UNCHANGED <<inputs, build_server, build_path, calls, not_started, output, exit_code>>

\* --- CopyLock: rsync -a --delete ... <server>:<path>/Cargo.lock <dir>/Cargo.lock

\* The lockfile is copied back whatever the flag says.
copy_lock_always == TRUE

\* `if !no_copy_lock`
copy_lock_wanted == ~no_copy_lock

CopyLock ==
    /\ pc = "copy_lock"
    /\ IF copy_lock_wanted
       THEN /\ calls' = Append(calls, Call("CopyLock"))
            /\ \E started \in BOOLEAN :
                 IF started
                 THEN /\ running' = running \cup {"CopyLock"}
                      /\ pc' = "copy_lock_wait"
                      /\ UNCHANGED <<not_started, exit_code>>
                 ELSE /\ not_started' = not_started \cup {"CopyLock"}
                      /\ Exit(ExitCopyLockFailed)
                      /\ UNCHANGED running
       ELSE /\ pc' = "finish"
            /\ UNCHANGED <<calls, running, not_started, exit_code>>
    /\ UNCHANGED <<inputs, build_server, build_path, nonzero, output>>

CopyLockExit ==
    /\ pc = "copy_lock_wait"
    /\ \E status \in ExitStatuses :
         nonzero' = IF success(status) THEN nonzero ELSE nonzero \cup {"CopyLock"}
    /\ running' = running \ {"CopyLock"}
    /\ pc' = "finish"
    /\ UNCHANGED <<inputs, build_server, build_path, calls, not_started, output, exit_code>>

\* --- the end of main

\* The status of the build is dropped.
final_exit_zero(out) == ExitSuccess

\* if !output.status.success() { exit(output.status.code().unwrap_or(1)) }
final_exit(out) ==
    IF ~success(out)
    THEN IF code(out).some THEN code(out).val ELSE ExitUnknownCode
    ELSE ExitSuccess

Finish ==
    /\ pc = "finish"
    /\ Exit(final_exit(output.val))
    /\ UNCHANGED <<inputs, build_server, build_path, calls, running, not_started, nonzero, output>>

Next ==
    \/ Resolve
    \/ Transfer
    \/ TransferExit
    \/ RemoteExecute
    \/ RemoteExecuteExit
    \/ CopyArtifacts
    \/ CopyArtifactsExit
    \/ CopyLock
    \/ CopyLockExit
    \/ Finish

Spec == Init /\ [][Next]_vars

\* The runs that differ in what goes into the remote command and the build
\* path: one to MaxArgs words of --build-env and of the pass-through command,
\* two profiles, two toolchains, two project directories.
Words(W) == UNION {[1..n -> W] : n \in 1..MaxArgs}

InitRender ==
    /\ remote \in {Some("A"), Some("B")}
    /\ copy_back \in {None, Some(None)}
    /\ no_copy_lock = FALSE
    /\ hidden = FALSE
    /\ build_env \in Words({"RUST_BACKTRACE=1", "CC=clang"})
    /\ rustup_default \in {"stable", "nightly"}
    /\ env \in {"/etc/profile", "~/.profile"}
    /\ remote_commands \in Words({"build", "--release"})
    /\ project_dir \in Paths
    /\ project_file = [kind |-> "NotFound", table |-> <<>>]
    /\ user_file = [kind |-> "NotFound", table |-> <<>>]
    /\ pc = "resolve"
    /\ build_server = None
    /\ build_path = None
    /\ calls = <<>>
    /\ running = {}
    /\ not_started = {}
    /\ nonzero = {}
    /\ output = None
    /\ exit_code = None

SpecRender == InitRender /\ [][Next]_vars

\* The runs that differ in which stages are asked for and in whether a build
\* server is found.
InitLive ==
    /\ remote \in {None, Some("A")}
    /\ copy_back \in {None, Some(None)}
    /\ no_copy_lock \in BOOLEAN
    /\ hidden = FALSE
    /\ build_env = <<"RUST_BACKTRACE=1">>
    /\ rustup_default = "stable"
    /\ env = "/etc/profile"
    /\ remote_commands = <<"build", "--release">>
    /\ project_dir = "/home/u/app"
    /\ project_file = [kind |-> "NotFound", table |-> <<>>]
    /\ user_file \in {[kind |-> "NotFound", table |-> <<>>],
                      [kind |-> "Toml", table |-> [k \in {"remote"} |-> StringValue("B")]]}
    /\ pc = "resolve"
    /\ build_server = None
    /\ build_path = None
    /\ calls = <<>>
    /\ running = {}
    /\ not_started = {}
    /\ nonzero = {}
    /\ output = None
    /\ exit_code = None

\* main is one thread: it takes its next step whenever it has one, and a child
\* that was started exits.
SpecFair == InitLive /\ [][Next]_vars /\ WF_vars(Next)

\* ----------------------------------------------------------------- claims

Invoked(stage) == \E i \in DOMAIN calls : calls[i].stage = stage
StageNo(stage) == CHOOSE n \in DOMAIN Stages : Stages[n] = stage
Terminated == pc = "exited"
\* The remote build exited with a code other than zero.
BuildExitedNonZero == output.some /\ output.val.exited /\ output.val.code # 0
\* A stage failed at the transport level: its process was not started or
\* (for the three rsync stages) exited without success.
TransportFailed(stage) == stage \in not_started \cup nonzero

\* C1 (as stated): when the remote build exits non-zero, copyBack is present and
\* copyLock is true, the run ends with CopyArtifacts and CopyLock both invoked
\* and with the remote build's exit code as the exit status.
C1_AsStated ==
    (Terminated /\ BuildExitedNonZero /\ copy_back.some /\ ~no_copy_lock)
        => /\ Invoked("CopyArtifacts")
           /\ Invoked("CopyLock")
           /\ exit_code = Some(output.val.code)

\* C1 (amended): when the remote build exits non-zero, copyBack is present and
\* copyLock is true, the run does not end before CopyArtifacts is invoked;
\* CopyLock is invoked as well unless the CopyArtifacts process could not be
\* started; and the exit status is the remote build's exit code unless one of
\* the two copy-back processes could not be started.
C1_CopyBackAfterFailedBuild ==
    (Terminated /\ BuildExitedNonZero /\ copy_back.some /\ ~no_copy_lock)
        => /\ Invoked("CopyArtifacts")
           /\ ("CopyArtifacts" \notin not_started => Invoked("CopyLock"))
           /\ (not_started \cap {"CopyArtifacts", "CopyLock"} = {}
                 => exit_code = Some(output.val.code))

C1_Witness ==
    /\ Terminated /\ BuildExitedNonZero /\ copy_back.some /\ ~no_copy_lock
    /\ Invoked("CopyArtifacts") /\ Invoked("CopyLock")
    /\ not_started = {}
    /\ exit_code = Some(2)

\* C2: once the Transfer stage has failed at the transport level (not started,
\* or exited non-zero), the run is over with exit code -4 and no stage other
\* than Transfer has been invoked.
C2_TransferFailureAborts ==
    TransportFailed("Transfer")
        => /\ Terminated
           /\ exit_code = Some(ExitTransferFailed)
           /\ \A i \in DOMAIN calls : calls[i].stage = "Transfer"

\* C3: the stages are invoked in the order Transfer, RemoteExecute,
\* CopyArtifacts, CopyLock, each at most once, and a stage is invoked only when
\* every stage invoked before it has completed (the only process that may be
\* running is the one invoked last).
C3_StageOrder ==
    /\ \A i, j \in DOMAIN calls :
         i < j => StageNo(calls[i].stage) < StageNo(calls[j].stage)
    /\ \A stage \in running :
         calls # <<>> /\ calls[Len(calls)].stage = stage

C3_Witness ==
    /\ Terminated
    /\ [i \in DOMAIN calls |-> calls[i].stage] = Stages

\* C4: when the run ends with no transport-level failure, the exit status is 0
\* if the remote build exited zero, the build's exit code if it exited non-zero,
\* and 1 if it did not succeed and has no exit code.
C4_FinalExitStatus ==
    (Terminated /\ build_server.some /\ not_started = {} /\ nonzero = {})
        => /\ output.some
           /\ exit_code = Some(CASE success(output.val) -> 0
                                 [] output.val.exited /\ output.val.code # 0 -> output.val.code
                                 [] OTHER -> 1)

C4_Witness ==
    /\ Terminated /\ build_server.some /\ not_started = {} /\ nonzero = {}
    /\ output = Some(Signaled)
    /\ exit_code = Some(1)

\* A configuration source defines `remote`: it is present, parses, and holds a
\* string under the key.
Defines(file) ==
    /\ file.kind = "Toml"
    /\ "remote" \in DOMAIN file.table
    /\ file.table["remote"].type = "String"
DefinedBy(file) == file.table["remote"].str

\* C5: with no --remote, the resolved build server is the `remote` of the first
\* source that defines it, the project-level source before the user-level one.
C5_FirstDefiningSource ==
    (~remote.some /\ pc # "resolve")
        => /\ Defines(project_file)
                => build_server = Some(DefinedBy(project_file))
           /\ (~Defines(project_file) /\ Defines(user_file))
                => build_server = Some(DefinedBy(user_file))

\* C6: with no --remote and no source that defines `remote`, the run ends with
\* exit code -3 and no transport has been invoked.
C6_NoRemoteDefined ==
    (~remote.some /\ ~Defines(project_file) /\ ~Defines(user_file) /\ pc # "resolve")
        => /\ Terminated
           /\ exit_code = Some(ExitNoRemote)
           /\ calls = <<>>

\* C7: once CopyArtifacts has failed at the transport level (not started, or
\* exited non-zero), the run is over with exit code -6 and CopyLock has not
\* been invoked.
C7_CopyArtifactsFailureAborts ==
    TransportFailed("CopyArtifacts")
        => /\ Terminated
           /\ exit_code = Some(ExitCopyBackFailed)
           /\ ~Invoked("CopyLock")

\* C8: a run in which CopyLock failed at the transport level (not started, or
\* exited non-zero) ends with exit code -7.
C8_CopyLockFailureAborts ==
    (Terminated /\ TransportFailed("CopyLock"))
        => exit_code = Some(ExitCopyLockFailed)

\* C9: CopyArtifacts is never invoked when copyBack is absent and CopyLock is
\* never invoked when --no-copy-lock is given.
C9_SkippedStagesNeverInvoked ==
    /\ ~copy_back.some => ~Invoked("CopyArtifacts")
    /\ no_copy_lock => ~Invoked("CopyLock")

C9_Witness ==
    /\ Terminated
    /\ ~copy_back.some /\ no_copy_lock
    /\ "Transfer" \in nonzero
    /\ BuildExitedNonZero
    /\ Len(calls) = 2

\* C10: when --remote is given, resolution does not fail and the resolved build
\* server is the value of --remote, whatever the two configuration files hold.
C10_OverrideWins ==
    (remote.some /\ pc # "resolve")
        => /\ build_server = Some(remote.val)
           /\ ~(Terminated /\ calls = <<>>)

C10_Witness ==
    /\ remote = Some("A")
    /\ Defines(project_file) /\ DefinedBy(project_file) = "B"
    /\ user_file.kind = "Toml" /\ "remote" \notin DOMAIN user_file.table
    /\ build_server = Some("A")


\* C11: with no --remote, a project-level file that is present but unreadable
\* or unparsable does not abort resolution and counts as absent: the resolved
\* build server is the user-level `remote` if the user-level source defines it,
\* and otherwise the run ends with the missing-server error (-3).
C11_MalformedProjectFileIsAbsent ==
    (~remote.some /\ project_file.kind \in {"IoError", "Invalid"} /\ pc # "resolve")
        => IF Defines(user_file)
           THEN build_server = Some(DefinedBy(user_file))
           ELSE Terminated /\ exit_code = Some(ExitNoRemote) /\ calls = <<>>

\* C12: whenever a transport has been invoked, the resolved build server is a
\* non-empty string.
C12_BuildServerNonEmpty ==
    calls # <<>> => (build_server.some /\ build_server.val # "")

\* C16: once the ssh process of RemoteExecute could not be started, the run is
\* over with exit code -5 and neither CopyArtifacts nor CopyLock has been
\* invoked.
C16_RemoteNotStartedAborts ==
    "RemoteExecute" \in not_started
        => /\ Terminated
           /\ exit_code = Some(ExitRemoteNotStarted)
           /\ ~Invoked("CopyArtifacts")
           /\ ~Invoked("CopyLock")

C16_Witness ==
    /\ "RemoteExecute" \in not_started
    /\ copy_back.some /\ ~no_copy_lock
    /\ Terminated
    /\ exit_code = Some(-5)


\* The exit code the program dedicates to each kind of transport-level failure.
DedicatedCode(stage) ==
    CASE stage = "Transfer" -> ExitTransferFailed
      [] stage = "RemoteExecute" -> ExitRemoteNotStarted
      [] stage = "CopyArtifacts" -> ExitCopyBackFailed
      [] stage = "CopyLock" -> ExitCopyLockFailed
DedicatedCodes ==
    {ExitNoRemote, ExitTransferFailed, ExitRemoteNotStarted,
     ExitCopyBackFailed, ExitCopyLockFailed}
FailedStages == {n \in DOMAIN Stages : TransportFailed(Stages[n])}
FirstFailedStage == Stages[CHOOSE n \in FailedStages : \A m \in FailedStages : n <= m]
OnlyBuildFailed ==
    /\ build_server.some /\ not_started = {} /\ nonzero = {}
    /\ output.some /\ ~success(output.val)

\* C13: a run in which a transport-level stage failed ends with that stage's
\* dedicated code; the five dedicated codes are pairwise distinct; and a run in
\* which only the remote build failed ends with an exit status that is none of
\* the five, so that the exit status tells the kinds of failure apart.
C13_ExitStatusIdentifiesFailure ==
    /\ Cardinality(DedicatedCodes) = 5
    /\ Cardinality({wait_status(c) : c \in DedicatedCodes}) = 5
    /\ (Terminated /\ FailedStages # {})
          => exit_code = Some(DedicatedCode(FirstFailedStage))
    /\ (Terminated /\ OnlyBuildFailed)
          => wait_status(exit_code.val) \notin {wait_status(c) : c \in DedicatedCodes}

\* The second half of C13 alone: the exit status of a run in which only the
\* remote build failed is none of the dedicated ones.
C13_BuildStatusCollides ==
    (Terminated /\ OnlyBuildFailed)
        => wait_status(exit_code.val) \notin {wait_status(c) : c \in DedicatedCodes}


\* The words with one space between each two, built from the last word back.
RECURSIVE SpaceJoined(_)
SpaceJoined(w) ==
    IF Len(w) = 1 THEN w[1]
    ELSE SpaceJoined(SubSeq(w, 1, Len(w) - 1)) \o " " \o w[Len(w)]

CallsOf(stage) == {calls[i] : i \in {j \in DOMAIN calls : calls[j].stage = stage}}

\* C14: the command handed to ssh is one string: `source <envProfile>`, then
\* `rustup default <toolchain>`, then `cd <buildPath>`, then the buildEnv words
\* and `cargo` and the pass-through words, each list joined by single spaces in
\* its order, nothing quoted; and the example of the claim renders to the
\* string the claim gives.
C14_RemoteCommand ==
    /\ format_build_command("/etc/profile", "stable", "~/remote-builds/123/",
                            <<"RUST_BACKTRACE=1">>, <<"build", "--release">>)
         = "source /etc/profile; rustup default stable; cd ~/remote-builds/123/; RUST_BACKTRACE=1 cargo build --release"
    /\ \A c \in CallsOf("RemoteExecute") :
         c.args[3] = "source " \o env \o "; " \o "rustup default " \o rustup_default \o "; "
                        \o "cd " \o build_path.val \o "; "
                        \o SpaceJoined(build_env) \o " cargo " \o SpaceJoined(remote_commands)

C14_Witness ==
    /\ Invoked("RemoteExecute")
    /\ build_env = <<"CC=clang", "RUST_BACKTRACE=1">>
    /\ remote_commands = <<"build", "--release">>
    /\ env = "~/.profile" /\ rustup_default = "nightly"

\* The build path of each project directory, as a table of the directory alone.
PathOfRoot(root) ==
    CASE root = "/home/u/app" -> "~/remote-builds/14627333965257922168/"
      [] root = "/home/u/lib" -> "~/remote-builds/1311768467463790320/"

\* C15: the build path is a function of the project root alone: in every run,
\* whatever the build server, build environment, toolchain, copy-back setting
\* and pass-through arguments, it is the one path that belongs to the root.
C15_BuildPathOfRootOnly ==
    build_path.some => build_path.val = PathOfRoot(project_dir)

C15_Witness ==
    /\ build_path = Some("~/remote-builds/1311768467463790320/")
    /\ remote = Some("B") /\ rustup_default = "nightly" /\ ~copy_back.some
    /\ Len(build_env) = 2
    /\ Invoked("Transfer")

\* C17: the Transfer rsync is always given --delete and `--exclude target`; it
\* is given `--exclude .*` exactly when transferHidden is false; and its last
\* argument, the destination, is `<buildServer>:<buildPath>`.
Excludes(args, pattern) ==
    \E i \in 1..(Len(args) - 1) : args[i] = "--exclude" /\ args[i + 1] = pattern
C17_TransferArguments ==
    \A c \in CallsOf("Transfer") :
        /\ \E i \in DOMAIN c.args : c.args[i] = "--delete"
        /\ Excludes(c.args, "target")
        /\ Excludes(c.args, ".*") <=> ~hidden
        /\ c.args[Len(c.args)] = build_server.val \o ":" \o build_path.val

C17_Witness ==
    /\ hidden
    /\ \E c \in CallsOf("Transfer") : Len(c.args) = 10
    /\ pc = "execute"

\* C18: every transport invocation of a run names the build server and the
\* build path that were resolved before Transfer, whatever the outcome of the
\* stages before it: the rsync calls in their remote argument, the ssh call in
\* its host argument and in the `cd` of its command.
C18_SameServerAndPath ==
    \A i \in DOMAIN calls :
        LET c == calls[i]
            s == build_server.val
            p == build_path.val
        IN  CASE c.stage = "Transfer" -> c.args[Len(c.args)] = s \o ":" \o p
              [] c.stage = "RemoteExecute" ->
                    /\ c.args[2] = s
                    /\ c.args[3] = format_build_command(env, rustup_default, p,
                                                        build_env, remote_commands)
              [] c.stage = "CopyArtifacts" ->
                    c.args[5] = s \o ":" \o p \o "/target/" \o file_name
              [] c.stage = "CopyLock" -> c.args[5] = s \o ":" \o p \o "/Cargo.lock"

C18_Witness ==
    /\ ~remote.some
    /\ build_server = Some("B")
    /\ Len(calls) = 4
    /\ nonzero = {"Transfer", "CopyArtifacts"}
    /\ BuildExitedNonZero

\* C19 (as stated): the hash segment of the build path has the same number of
\* characters for all project roots.
C19_FixedWidth ==
    build_path.some => \A d \in Paths : Len(build_path.val) = Len(build_path_of(d))

\* C19 (amended): the hash segment is the decimal form of the 64-bit hash
\* without padding, so it is as wide as the hash has decimal digits: 20
\* characters for 14627333965257922168, 19 for 1311768467463790320.
HashWidth == Len(build_path.val) - Len("~/remote-builds/") - Len("/")
C19_DecimalWidth ==
    build_path.some
        => /\ HashWidth \in 1..20
           /\ project_dir = "/home/u/app" => HashWidth = 20
           /\ project_dir = "/home/u/lib" => HashWidth = 19

C19_Witness ==
    /\ build_path.some
    /\ project_dir = "/home/u/lib"
    /\ HashWidth = 19

\* C20: every run ends (given that main takes its steps and started children
\* exit), no run invokes more than four transports, and main never moves back
\* to an earlier position.
Position ==
    CASE pc = "resolve" -> 0
      [] pc = "transfer" -> 1
      [] pc = "transfer_wait" -> 2
      [] pc = "execute" -> 3
      [] pc = "execute_wait" -> 4
      [] pc = "copy_artifacts" -> 5
      [] pc = "copy_artifacts_wait" -> 6
      [] pc = "copy_lock" -> 7
      [] pc = "copy_lock_wait" -> 8
      [] pc = "finish" -> 9
      [] pc = "exited" -> 10
C20_Terminates ==
    /\ <>Terminated
    /\ [](Len(calls) <= 4)
    /\ [][Position' > Position]_vars

C20_Witness ==
    /\ Terminated
    /\ Len(calls) = 4
    /\ nonzero = {"Transfer", "CopyArtifacts", "CopyLock"}

====
